---- MODULE Spec2Model ----
(***************************************************************************)
(* The render loop of src/main.rs: start-up (window, surface, adapter,     *)
(* device, surface configuration, resources, timer) followed by the winit  *)
(* event loop whose closure handles close, resize, scale-change, redraw    *)
(* and idle events.  Every action is one start-up step or one invocation   *)
(* of the closure together with the event-loop step that delivers it.      *)
(***************************************************************************)
EXTENDS Integers, Naturals, Sequences, FiniteSets, TLC

VARIABLES
    pc,             \* where main() is: a start-up step, "loop", "exited", "panicked"
    fatal,          \* which unwrap / validation ended the process ("none" while alive)
    window_size,    \* window.inner_size() as created, <<w, h>>
    config,         \* the SurfaceConfiguration local (line 143), NoConfig before it
    surface_cfg,    \* the configuration the surface last accepted, NoConfig before
    configure_arg,  \* the argument of the latest surface.configure call
    render_pipeline,\* the pipeline object (line 205), NoPipeline before creation
    time_buffer,    \* contents of the time uniform buffer, NoBuffer before creation
    start_time,     \* Instant taken at line 241, NoInstant before
    now,            \* the monotonic clock read by Instant::now / elapsed
    control_flow,   \* the event loop's ControlFlow
    phase,          \* position inside one event-loop iteration
    redraw_pending, \* window.request_redraw() issued and not yet delivered
    last_event,     \* kind and window of the event the closure handled last
    ops,            \* GPU / surface operations of the latest closure invocation, in order
    close_handled,  \* a CloseRequested for the program's window has been handled
    last_size,      \* size of the latest resize event of the window (initial size if none)
    frames          \* number of frames presented (saturating)

vars == <<pc, fatal, window_size, config, surface_cfg, configure_arg,
          render_pipeline, time_buffer, start_time, now, control_flow, phase,
          redraw_pending, last_event, ops, close_handled, last_size, frames>>

----------------------------------------------------------------------------
(* Bounds of the model *)

MaxDim == 2

MaxClock == 3

SubsecBits == 1

MantBits == 1

MaxFrames == 2

(* Program constants *)

DrawVertices == 3

DrawInstances == 1

----------------------------------------------------------------------------
(* Values *)

NoConfig == [width |-> 0, height |-> 0, format |-> "none",
             present_mode |-> "none", usage |-> "none", alpha_mode |-> "none"]

NoPipeline == [format |-> "none", vertex |-> "none", fragment |-> "none"]

NoBuffer == 0 - 1

NoInstant == 0 - 1

Dim == 0 .. MaxDim

\* Fullscreen::Borderless(None), line 105: the window takes the size of the
\* monitor, the largest extent a window of this run has.
MonitorSize == <<MaxDim, MaxDim>>

Formats == {"Bgra8UnormSrgb", "Bgra8Unorm"}

Ev(kind, window) == [kind |-> kind, window |-> window]

NoEvent == Ev("none", "none")

Op(name) == [op |-> name, n |-> 0, m |-> 0]

----------------------------------------------------------------------------
(* Duration::as_secs_f32 (line 266).  A Duration is whole seconds plus a   *)
(* sub-second count; the conversion is                                      *)
(*     (secs as f32) + (nanos as f32) / (NANOS_PER_SEC as f32)              *)
(* in binary floating point with round-to-nearest, ties-to-even.  The model *)
(* keeps the arithmetic and the rounding, with a significand of MantBits    *)
(* bits and 2^SubsecBits sub-second units per second; a float is held as    *)
(* the integer number of sub-second units it denotes.                       *)

Pow2(k) == 2 ^ k

NanosPerSec == Pow2(SubsecBits)

RECURSIVE BitLen(_)
BitLen(n) == IF n = 0 THEN 0 ELSE 1 + BitLen(n \div 2)

\* Round a non-negative integer to MantBits significant bits, ties to even.
RoundF(n) ==
    IF BitLen(n) <= MantBits THEN n
    ELSE LET sh   == BitLen(n) - MantBits
             q    == n \div Pow2(sh)
             r    == n % Pow2(sh)
             half == Pow2(sh - 1)
             up   == r > half \/ (r = half /\ q % 2 = 1)
         IN  (IF up THEN q + 1 ELSE q) * Pow2(sh)

\* A mis-conversion that keeps only the sub-second part of the duration.
SubsecOnly(d) == RoundF(d % NanosPerSec)

as_secs_f32(d) ==
    LET secs  == d \div NanosPerSec
        nanos == d % NanosPerSec
    IN  RoundF(RoundF(secs) * NanosPerSec + RoundF(nanos))

\* Instant::elapsed (line 266): time since the reference instant.
Elapsed == now - start_time

----------------------------------------------------------------------------
(* Start-up, lines 102-241.  Each fallible step ends in .unwrap().          *)

\* An ignored start-up error: execution carries on to the next step.
UnwrapIgnored(ok, next) == next

\* Result::unwrap / Option::unwrap: the next step, or a panic.
Unwrap(ok, next) == IF ok THEN next ELSE "panicked"

Init ==
    /\ pc = "build_window"
    /\ fatal = "none"
    /\ window_size = <<0, 0>>
    /\ config = NoConfig
    /\ surface_cfg = NoConfig
    /\ configure_arg = NoConfig
    /\ render_pipeline = NoPipeline
    /\ time_buffer = NoBuffer
    /\ start_time = NoInstant
    /\ now = 0
    /\ control_flow = "Poll"
    /\ phase = "events"
    /\ redraw_pending = FALSE
    /\ last_event = NoEvent
    /\ ops = <<>>
    /\ close_handled = FALSE
    /\ last_size = <<0, 0>>
    /\ frames = 0

\* A fallible start-up step that touches nothing but pc.
StartupStep(here, what, next, ok) ==
    /\ pc = here
    /\ pc' = Unwrap(ok, next)
    /\ fatal' = IF ok THEN fatal ELSE what
    /\ UNCHANGED <<config, surface_cfg, configure_arg, render_pipeline,
                   time_buffer, start_time, now, control_flow, phase,
                   redraw_pending, last_event, ops, close_handled, frames>>

\* WindowBuilder::build(..).unwrap(), lines 103-107.
BuildWindow ==
    \E ok \in BOOLEAN :
        /\ StartupStep("build_window", "window", "create_surface", ok)
        /\ window_size' = IF ok THEN MonitorSize ELSE window_size
        /\ last_size' = window_size'

\* instance.create_surface(&window).unwrap(), line 116.
CreateSurface ==
    \E ok \in BOOLEAN :
        /\ StartupStep("create_surface", "surface", "request_adapter", ok)
        /\ UNCHANGED <<window_size, last_size>>

\* request_adapter(..).unwrap(), lines 117-122.
RequestAdapter ==
    \E ok \in BOOLEAN :
        /\ StartupStep("request_adapter", "adapter", "request_device", ok)
        /\ UNCHANGED <<window_size, last_size>>

\* request_device(..).unwrap(), lines 125-133.
RequestDevice ==
    \E ok \in BOOLEAN :
        /\ StartupStep("request_device", "device", "configure_surface", ok)
        /\ UNCHANGED <<window_size, last_size>>

----------------------------------------------------------------------------
(* surface.configure (lines 152, 256, 261).  A configuration of zero area   *)
(* is invalid for the surface: depending on the wgpu version and backend    *)
(* the call is a fatal validation error or is passed on to the backend.     *)

ZeroArea(cfg) == cfg.width = 0 \/ cfg.height = 0

ConfigureResults(cfg) == IF ZeroArea(cfg) THEN BOOLEAN ELSE {TRUE}

\* The configuration the surface holds after configure(cfg).
Configured(cfg, accepted) == IF accepted THEN cfg ELSE surface_cfg

\* The initial SurfaceConfiguration, lines 143-151.
InitialConfig(fmt) ==
    [width |-> window_size[1], height |-> window_size[2], format |-> fmt,
     present_mode |-> "Fifo", usage |-> "RENDER_ATTACHMENT",
     alpha_mode |-> "Auto"]

\* Lines 136-152: pick the surface format, build config, configure.
ConfigureSurface ==
    \E fmt \in Formats :
      \E accepted \in ConfigureResults(InitialConfig(fmt)) :
        /\ pc = "configure_surface"
        /\ config' = InitialConfig(fmt)
        /\ configure_arg' = config'
        /\ surface_cfg' = Configured(config', accepted)
        /\ pc' = IF accepted THEN "create_resources" ELSE "panicked"
        /\ fatal' = IF accepted THEN fatal ELSE "configure"
        /\ UNCHANGED <<window_size, render_pipeline, time_buffer, start_time,
                       now, control_flow, phase, redraw_pending, last_event,
                       ops, close_handled, last_size, frames>>

\* Lines 155-238: time buffer (initial contents 0.0), bind group, pipeline.
CreateResources ==
    /\ pc = "create_resources"
    /\ time_buffer' = 0
    /\ render_pipeline' = [format |-> config.format, vertex |-> "vs_main",
                           fragment |-> "fs_main"]
    /\ pc' = "start_timer"
    /\ UNCHANGED <<fatal, window_size, config, surface_cfg, configure_arg,
                   start_time, now, control_flow, phase, redraw_pending,
                   last_event, ops, close_handled, last_size, frames>>

\* Line 241: start_time = Instant::now(); line 244: event_loop.run.
StartTimer ==
    /\ pc = "start_timer"
    /\ start_time' = now
    /\ pc' = "loop"
    /\ UNCHANGED <<fatal, window_size, config, surface_cfg, configure_arg,
                   render_pipeline, time_buffer, now, control_flow, phase,
                   redraw_pending, last_event, ops, close_handled, last_size,
                   frames>>

\* The monotonic clock advances while the process lives.
Tick ==
    /\ pc \notin {"exited", "panicked"}
    /\ now < MaxClock
    /\ now' = now + 1
    /\ UNCHANGED <<pc, fatal, window_size, config, surface_cfg, configure_arg,
                   render_pipeline, time_buffer, start_time, control_flow,
                   phase, redraw_pending, last_event, ops, close_handled,
                   last_size, frames>>

----------------------------------------------------------------------------
(* The event loop, lines 244-313.  One iteration of the windowing system's  *)
(* loop delivers the pending window events, then MainEventsCleared, then    *)
(* the requested redraws, then RedrawEventsCleared, and only then looks at  *)
(* the control flow.  ControlFlow::Exit is sticky: once set, the closure's  *)
(* writes to control_flow no longer reach the loop.                         *)

StickyExit(cf, written) == IF cf = "Exit" THEN "Exit" ELSE written

\* Line 245 followed by the CloseRequested arm, line 252.
ClosureFlow(ev) ==
    LET poll == "Poll"
    IN  IF ev.kind = "CloseRequested" /\ ev.window = "own" THEN "Exit" ELSE poll

\* The closure is invoked with ev.
Deliver(ev) ==
    /\ pc = "loop"
    /\ last_event' = ev
    /\ control_flow' = StickyExit(control_flow, ClosureFlow(ev))

\* An arm that performs nothing (lines 263, 311, and line 252 itself).
NoEffect ==
    /\ ops' = <<>>
    /\ UNCHANGED <<pc, fatal, window_size, config, surface_cfg, configure_arg,
                   render_pipeline, time_buffer, start_time, now, phase,
                   redraw_pending, last_size, frames>>

\* WindowEvent::CloseRequested for the window, line 252.
CloseRequested ==
    /\ phase = "events"
    /\ Deliver(Ev("CloseRequested", "own"))
    /\ close_handled' = TRUE
    /\ NoEffect

\* A resize that also resets the presentation mode.
ResizeConfigPresentMode(cfg, w, h) ==
    [cfg EXCEPT !.width = w, !.height = h, !.present_mode = "Immediate"]

\* A resize with the two dimensions exchanged.
ResizeConfigSwapped(cfg, w, h) == [cfg EXCEPT !.width = h, !.height = w]

\* Lines 254-255 and 259-260.
ResizeConfig(cfg, w, h) == [cfg EXCEPT !.width = w, !.height = h]

\* The operations of a resize arm, lines 254-256 and 259-261.
ResizeOps == <<Op("set_width"), Op("set_height"), Op("configure")>>

\* The body shared by the Resized and ScaleFactorChanged arms.
ResizeArm(w, h, accepted) ==
    /\ config' = ResizeConfig(config, w, h)
    /\ configure_arg' = config'
    /\ surface_cfg' = Configured(config', accepted)
    /\ pc' = IF accepted THEN pc ELSE "panicked"
    /\ fatal' = IF accepted THEN fatal ELSE "configure"
    /\ ops' = ResizeOps
    /\ last_size' = <<w, h>>
    /\ UNCHANGED <<window_size, render_pipeline, time_buffer, start_time, now,
                   phase, redraw_pending, close_handled, frames>>

\* WindowEvent::Resized(physical_size) for the window, lines 253-257.
Resized ==
    \E w \in Dim, h \in Dim :
      \E accepted \in ConfigureResults(ResizeConfig(config, w, h)) :
        /\ phase = "events"
        /\ Deliver(Ev("Resized", "own"))
        /\ ResizeArm(w, h, accepted)

\* WindowEvent::ScaleFactorChanged { new_inner_size, .. }, lines 258-262.
ScaleFactorChanged ==
    \E w \in Dim, h \in Dim :
      \E accepted \in ConfigureResults(ResizeConfig(config, w, h)) :
        /\ phase = "events"
        /\ Deliver(Ev("ScaleFactorChanged", "own"))
        /\ ResizeArm(w, h, accepted)

\* Any other WindowEvent of the window, line 263.
OtherWindowEvent ==
    /\ phase = "events"
    /\ Deliver(Ev("OtherWindowEvent", "own"))
    /\ NoEffect
    /\ UNCHANGED close_handled

WindowEventKinds ==
    {"CloseRequested", "Resized", "ScaleFactorChanged", "OtherWindowEvent"}

\* A WindowEvent whose window_id is not window.id(): the guard of line 251
\* fails and the event falls through to line 311.
ForeignWindowEvent ==
    \E kind \in WindowEventKinds :
        /\ phase = "events"
        /\ Deliver(Ev(kind, "foreign"))
        /\ NoEffect
        /\ UNCHANGED close_handled

\* Events matched by line 311 (NewEvents, DeviceEvent, Suspended, ...).
OtherEvent ==
    /\ phase = "events"
    /\ Deliver(Ev("Other", "none"))
    /\ NoEffect
    /\ UNCHANGED close_handled

\* Event::MainEventsCleared, lines 308-310: window.request_redraw().
MainEventsCleared ==
    /\ phase = "events"
    /\ Deliver(Ev("MainEventsCleared", "none"))
    /\ redraw_pending' = TRUE
    /\ phase' = "redraws"
    /\ ops' = <<Op("request_redraw")>>
    /\ UNCHANGED <<pc, fatal, window_size, config, surface_cfg, configure_arg,
                   render_pipeline, time_buffer, start_time, now,
                   close_handled, last_size, frames>>

----------------------------------------------------------------------------
(* The RedrawRequested arm, lines 265-307.                                  *)

\* render_pass.draw(0..3, 0..1), line 302.
DrawOp == [op |-> "draw", n |-> DrawVertices, m |-> DrawInstances]

\* Lines 266-273: elapsed time, uniform write, frame acquisition.
FramePrologue ==
    <<Op("elapsed"), Op("write_buffer"), Op("get_current_texture")>>

\* Lines 274-306: view, encoder, render pass with one draw, submit, present.
FrameBody ==
    <<Op("create_view"), Op("begin_render_pass"), DrawOp, Op("submit"),
      Op("present")>>

\* A frame that presents before it submits.
RedrawOpsPresentFirst(acquired) ==
    IF acquired
    THEN FramePrologue \o <<Op("create_view"), Op("begin_render_pass"), DrawOp,
                            Op("present"), Op("submit")>>
    ELSE FramePrologue

\* A frame that acquires again after a failed acquisition.
RedrawOpsRetry(acquired) ==
    IF acquired THEN FramePrologue \o FrameBody
    ELSE FramePrologue \o <<Op("get_current_texture")>> \o FrameBody

\* The operations of one RedrawRequested handling: unwrap at line 273 ends
\* the handler when the acquisition failed.
RedrawOps(acquired) ==
    IF acquired THEN FramePrologue \o FrameBody ELSE FramePrologue

Min(a, b) == IF a < b THEN a ELSE b

\* Event::RedrawRequested(window_id) for the window, lines 265-307.
RedrawRequested ==
    \E acquired \in BOOLEAN :
        /\ phase = "redraws"
        /\ redraw_pending
        /\ Deliver(Ev("RedrawRequested", "own"))
        /\ time_buffer' = as_secs_f32(Elapsed)
        /\ pc' = Unwrap(acquired, "loop")
        /\ fatal' = IF acquired THEN fatal ELSE "acquire"
        /\ ops' = RedrawOps(acquired)
        /\ frames' = IF Len(ops') > Len(FramePrologue)
                     THEN Min(frames + 1, MaxFrames) ELSE frames
        /\ redraw_pending' = FALSE
        /\ UNCHANGED <<window_size, config, surface_cfg, configure_arg,
                       render_pipeline, start_time, now, phase, close_handled,
                       last_size>>

\* A RedrawRequested whose window_id is not window.id(): line 311.
ForeignRedrawRequested ==
    /\ phase = "redraws"
    /\ Deliver(Ev("RedrawRequested", "foreign"))
    /\ NoEffect
    /\ UNCHANGED close_handled

\* The end of an iteration: RedrawEventsCleared is delivered (line 311), then
\* the loop examines the control flow and leaves on Exit.
EndIteration ==
    /\ phase = "redraws"
    /\ ~redraw_pending
    /\ Deliver(Ev("RedrawEventsCleared", "none"))
    /\ pc' = IF control_flow' = "Exit" THEN "exited" ELSE pc
    /\ phase' = "events"
    /\ ops' = <<>>
    /\ UNCHANGED <<fatal, window_size, config, surface_cfg, configure_arg,
                   render_pipeline, time_buffer, start_time, now,
                   redraw_pending, close_handled, last_size, frames>>

----------------------------------------------------------------------------

Startup ==
    \/ BuildWindow
    \/ CreateSurface
    \/ RequestAdapter
    \/ RequestDevice
    \/ ConfigureSurface
    \/ CreateResources
    \/ StartTimer

\* The steps the polling loop takes on its own in every iteration.
LoopProgress ==
    \/ MainEventsCleared
    \/ RedrawRequested
    \/ EndIteration

Next ==
    \/ BuildWindow
    \/ CreateSurface
    \/ RequestAdapter
    \/ RequestDevice
    \/ ConfigureSurface
    \/ CreateResources
    \/ StartTimer
    \/ Tick
    \/ CloseRequested
    \/ Resized
    \/ ScaleFactorChanged
    \/ OtherWindowEvent
    \/ ForeignWindowEvent
    \/ OtherEvent
    \/ MainEventsCleared
    \/ RedrawRequested
    \/ ForeignRedrawRequested
    \/ EndIteration

Spec == Init /\ [][Next]_vars

\* ControlFlow::Poll: the loop never blocks, so start-up and the loop's own
\* steps are taken whenever they stay possible.
FairSpec == Spec /\ WF_vars(Startup) /\ WF_vars(LoopProgress)

----------------------------------------------------------------------------
(* Vocabulary of the properties *)

OwnRedraw == Ev("RedrawRequested", "own")

ResizeEvents == {Ev("Resized", "own"), Ev("ScaleFactorChanged", "own")}

StartupFailures == {"window", "surface", "adapter", "device"}

FrameOpNames == {"get_current_texture", "draw", "submit", "present"}

\* How often the latest closure invocation performed the operation.
Count(name) == Cardinality({i \in DOMAIN ops : ops[i].op = name})

\* The position of an operation performed exactly once.
Pos(name) == CHOOSE i \in DOMAIN ops : ops[i].op = name

TouchedFrame == \E i \in DOMAIN ops : ops[i].op \in FrameOpNames

Acquired == Count("get_current_texture") > 0

Presented == Count("present") > 0

ConfigSize == <<config.width, config.height>>

----------------------------------------------------------------------------
\* C1: once a CloseRequested of the window has been handled, no later
\* RedrawRequested handling acquires, draws, submits or presents a frame, and
\* the loop eventually ends.
C1_CloseStopsFrames ==
    /\ [](~(close_handled /\ last_event = OwnRedraw /\ TouchedFrame))
    /\ (close_handled ~> pc \in {"exited", "panicked"})

\* C10: every surface.configure call, and every frame acquisition, is made
\* with a configuration whose width and height are both at least 1.
C10_ConfigureNonZero ==
    /\ configure_arg # NoConfig =>
           configure_arg.width >= 1 /\ configure_arg.height >= 1
    /\ Acquired => surface_cfg.width >= 1 /\ surface_cfg.height >= 1

----------------------------------------------------------------------------
\* C2: the value written to the time uniform never decreases from one write
\* to the next and is never below the initial contents 0; the reference
\* instant is taken once, before the loop, and no step changes it afterwards.
C2_TimeMonotonic ==
    [][ /\ time_buffer' >= time_buffer
        /\ (pc' = "loop" => time_buffer' >= 0 /\ start_time' # NoInstant)
        /\ (start_time # NoInstant => start_time' = start_time)
        /\ (start_time' # start_time => start_time' = now /\ pc' = "loop")
      ]_vars

\* A frame whose uniform is a rounded, non-zero elapsed time, written after
\* an earlier frame.
C2_Witness ==
    /\ last_event = OwnRedraw
    /\ frames >= 2
    /\ time_buffer > 0
    /\ time_buffer = as_secs_f32(Elapsed)
    /\ time_buffer # Elapsed

\* C3: a resize (or scale change) of the window sets config to the event's
\* size and calls surface.configure with exactly that config in the same
\* handler, with no frame operation in between; whenever a frame is acquired
\* the surface's applied configuration is the current config, whose size is
\* that of the latest resize event (the initial window size if none).
C3_ResizeReconfigures ==
    /\ last_event \in ResizeEvents =>
         /\ ConfigSize = last_size
         /\ configure_arg = config
         /\ pc = "loop" => surface_cfg = config
         /\ ~TouchedFrame
         /\ Count("configure") = 1
         /\ ops[Len(ops)].op = "configure"
    /\ Acquired =>
         /\ surface_cfg = config
         /\ ConfigSize = last_size
    /\ (pc = "loop" /\ last_event = NoEvent) =>
         /\ surface_cfg = config
         /\ ConfigSize = window_size /\ last_size = window_size

\* A frame acquired after a resize to a new, non-square, non-empty size.
C3_Witness ==
    /\ last_event = OwnRedraw
    /\ Acquired
    /\ last_size # window_size
    /\ last_size[1] > last_size[2] /\ last_size[2] >= 1
    /\ ConfigSize = last_size

\* C4: a RedrawRequested handling of the window computes the elapsed time,
\* writes the uniform once, acquires the frame, records one draw of 3
\* vertices and 1 instance, submits once and presents once, in that order (a
\* handling ended by a failed acquisition stops after the acquisition); no
\* other event's handling acquires, draws, submits or presents.
C4_FrameOrder ==
    /\ last_event = OwnRedraw =>
         /\ Count("elapsed") = 1 /\ Count("write_buffer") = 1
         /\ Count("get_current_texture") = 1
         /\ Pos("elapsed") < Pos("write_buffer")
         /\ Pos("write_buffer") < Pos("get_current_texture")
    /\ (last_event = OwnRedraw /\ fatal # "acquire") =>
         /\ Count("draw") = 1 /\ Count("submit") = 1 /\ Count("present") = 1
         /\ Pos("get_current_texture") < Pos("draw")
         /\ Pos("draw") < Pos("submit")
         /\ Pos("submit") < Pos("present")
         /\ Pos("present") = Len(ops)
         /\ ops[Pos("draw")].n = 3 /\ ops[Pos("draw")].m = 1
    /\ last_event # OwnRedraw => ~TouchedFrame

\* A complete frame has just been presented.
C4_Witness ==
    /\ last_event = OwnRedraw
    /\ Presented
    /\ pc = "loop"

\* C5: a failed frame acquisition ends the process inside that handler: the
\* handler has computed the time and written the uniform, attempted one
\* acquisition and nothing else, it changes nothing but the uniform, and no
\* step of the program follows.
C5_AcquireFailureFatal ==
    [][ /\ pc # "panicked"
        /\ (last_event' = OwnRedraw /\ ~Presented') =>
             /\ pc' = "panicked" /\ fatal' = "acquire"
             /\ Count("get_current_texture")' = 1
             /\ Count("write_buffer")' = 1
             /\ Count("draw")' = 0 /\ Count("submit")' = 0
             /\ Len(ops') = 3
             /\ time_buffer' = as_secs_f32(Elapsed)
             /\ UNCHANGED <<config, surface_cfg, configure_arg,
                            render_pipeline, start_time, frames>>
        /\ fatal' = "acquire" => (last_event' = OwnRedraw /\ ~Presented')
      ]_vars

\* An acquisition failed after frames had been presented.
C5_Witness ==
    /\ fatal = "acquire"
    /\ pc = "panicked"
    /\ frames >= 1
    /\ Count("get_current_texture") = 1

\* C6: a failure of window creation, surface creation, adapter request or
\* device request ends the process at that step: the surface is never
\* configured, the timer never started, the closure never invoked and no
\* frame ever acquired.
C6_StartupFailureFatal ==
    fatal \in StartupFailures =>
        /\ pc = "panicked"
        /\ surface_cfg = NoConfig /\ configure_arg = NoConfig
        /\ config = NoConfig
        /\ start_time = NoInstant
        /\ last_event = NoEvent
        /\ ops = <<>>
        /\ frames = 0

\* The adapter request failed after window and surface had been created.
C6_Witness ==
    /\ fatal = "adapter"
    /\ pc = "panicked"
    /\ window_size = MonitorSize

\* C7: the control flow is Poll after every closure invocation unless a
\* close was requested, every MainEventsCleared issues a redraw request, a
\* resize never stops the redraw cycle, and unless a close is requested, a
\* start-up step fails or an acquisition fails, frames are presented again
\* and again.
C7_ContinuousPresentation ==
    /\ [](/\ control_flow = "Exit" => close_handled
          /\ control_flow \in {"Poll", "Exit"}
          /\ last_event.kind = "MainEventsCleared" => Count("request_redraw") = 1
          /\ last_event \in ResizeEvents => pc = "loop")
    /\ \/ <>(close_handled \/ fatal \in StartupFailures \cup {"acquire"})
       \/ []<>(last_event = OwnRedraw /\ Presented)

\* C8: inside the loop only the Resized and ScaleFactorChanged handlers of the
\* window change config or reconfigure the surface, and they change nothing
\* of config but width and height: format, present mode (Fifo), usage and
\* alpha mode stay as set at start-up, as do the time reference and the
\* pipeline.
C8_ConfigFrame ==
    [][ pc = "loop" =>
          /\ config'.format = config.format
          /\ config'.present_mode = "Fifo"
          /\ config'.usage = config.usage
          /\ config'.alpha_mode = config.alpha_mode
          /\ render_pipeline' = render_pipeline
          /\ start_time' = start_time
          /\ last_event' \notin ResizeEvents =>
               /\ config' = config
               /\ surface_cfg' = surface_cfg
               /\ configure_arg' = configure_arg
               /\ (last_event' # last_event => Count("configure")' = 0)
      ]_vars

\* A frame drawn with a config whose width a resize has changed.
C8_Witness ==
    /\ last_event = OwnRedraw
    /\ Presented
    /\ config.width # window_size[1]
    /\ config.width >= 1 /\ config.height >= 1
    /\ config.format = render_pipeline.format

====
